---- MODULE Spec2Model ----
(***************************************************************************)
(* DebouncedButton: a debounced two-state button that classifies presses   *)
(* into click / double click / long press gestures.                        *)
(*                                                                         *)
(* The button object is a record of its fields.  update() is an operator   *)
(* from (button, reading, tm) to the button after the call and the Input   *)
(* it returns; the actions feed it readings and timestamps.                *)
(***************************************************************************)
EXTENDS Integers, Sequences, FiniteSets, TLC

\* ---------------------------------------------------------------- bounds
\* Largest timestamp handed to update() by the model's callers.
MaxTime == 300

\* Increments between the timestamps of consecutive update() calls.
Steps == {0, 10, 20, 150, 160}

\* The same for the caller whose whole history is recorded: a coarser
\* clock that runs long enough for two separate clicks.
MaxTimeRecorded == 400

StepsRecorded == {0, 20, 160}

\* The clock of the two buttons of opposite polarity polled side by side.
MaxTimeTwin == 180

\* The clock of the caller that also calls the accessors and
\* reset_duration(), and the timestamps it passes to duration().
MaxTimeCalls == 80

DurationArgs == {0, 10, MaxTimeCalls}

\* The caller whose raw reading stops changing: the last timestamp at
\* which it may pass a changed reading, and how long it polls after that.
MaxChangeTime == 100

SettleTime == 400

StepsSettled == {10, 160}

\* The caller whose clock leaves the 10 ms grid once: the steps that stay
\* on the grid, the steps one millisecond to either side of a threshold,
\* and the largest timestamp.
StepsGrid == {0, 20, 150}

StepsOffGrid == {19, 149, 151}

MaxTimeFine == 260

\* The caller whose clock is set back: the largest timestamp, by how much
\* a timestamp may be lower than the one before, and how often.
MaxTimeRegress == 120

StepsBack == {10, 20}

MaxBackward == 1

\* The caller whose timestamp counter wraps: it makes its first call
\* WrapLead before the counter wraps to 0 and polls for MaxTimeWrap; the
\* twin is polled at the same moments by a counter that starts at TwinBase
\* and does not wrap.
WrapLead == 50

MaxTimeWrap == 260

TwinBase == 1000

\* The clock of the caller whose button is compared with a fresh one.
MaxTimeRestart == 400

\* The clock of the caller that polls and calls reset_duration().
MaxTimeResets == 240

\* ------------------------------------------------------------- constants
DEBOUNCE_MS == 20

CLICKED_CUTOFF_MS == 150

DOUBLE_CLICK_TIMEOUT_MS == 150

\* uint32_t arithmetic is arithmetic modulo 2^w.  The model checker's
\* integers are 32-bit signed, so the counter is modelled 30 bits wide;
\* every timestamp and every constant it is compared with is far below it.
UINT_MODULUS == 2^30

\* uint32_t - uint32_t
USub(a, b) == (a - b) % UINT_MODULUS

\* enum Input
Inputs == {"NONE", "CLICK", "DOUBLE_CLICK", "LONG_PRESS",
           "CLICK_AND_LONG_PRESS", "DOUBLE_CLICK_AND_LONG_PRESS", "RELEASE"}

\* enum State
States == {"IDLE", "PRESSED", "PRESSED_PENDING", "CLICKED_PENDING",
           "CLICKED_PRESSED_PENDING", "DOUBLE_CLICKED_PENDING",
           "DOUBLE_CLICKED_PRESSED_PENDING"}

\* ------------------------------------------------------------ the button
\* DebouncedButton::DebouncedButton(bool pressed_state) with the default
\* member initialisers of the class.
DebouncedButton(pressed_state) ==
    [pressed_state          |-> pressed_state,
     state                  |-> "IDLE",
     prev_reading           |-> ~pressed_state,
     debounced_reading      |-> FALSE,
     last_reading_change_tm |-> 0,
     last_change_tm         |-> 0,
     prev_last_change_tm    |-> 0]

\* bool state() const
state(self) == self.debounced_reading = self.pressed_state

\* (mutant) a timestamp below the last change time gives 0.
durationFloored(self, tm) ==
    IF tm < self.last_change_tm THEN 0 ELSE USub(tm, self.last_change_tm)

\* uint32_t duration(uint32_t tm) const: max of two unsigned values.
UMax(a, b) == IF a >= b THEN a ELSE b

\* (mutant) the time is taken from the change before the last.
durationFromPrev(self, tm) == UMax(0, USub(tm, self.prev_last_change_tm))

duration(self, tm) == UMax(0, USub(tm, self.last_change_tm))

\* uint32_t prev_duration(uint32_t tm) const
prev_duration(self, tm) == USub(self.last_change_tm, self.prev_last_change_tm)

\* (mutant) only the last change time is reset.
reset_durationLastOnly(self) ==
    [self EXCEPT !.last_change_tm = 0]

\* void reset_duration()
reset_duration(self) ==
    [self EXCEPT !.last_change_tm = 0, !.prev_last_change_tm = 0]

\* update(), lines 33-34: the reading with the polarity taken out.
Normalize(self, reading) == IF ~self.pressed_state THEN ~reading ELSE reading

\* (mutant) the early return on a changed reading is lost.
ReadingChangedIgnored(self, r) == FALSE

\* update(), line 36: the reading differs from the previous call's.
ReadingChanged(self, r) == self.prev_reading # r

\* (mutant) a reading is accepted only after the debounce period.
StillBouncingInclusive(reading_duration) == reading_duration <= DEBOUNCE_MS

\* update(), line 48: the new reading has not passed the debounce period.
StillBouncing(reading_duration) == reading_duration < DEBOUNCE_MS

\* (mutant) a press after a pending click delivers the click and starts
\* over instead of extending the sequence.
EdgeTransitionNoChain(s) ==
    IF s = "IDLE" THEN [state |-> "PRESSED_PENDING", input |-> "NONE"]
    ELSE IF s = "PRESSED_PENDING" THEN [state |-> "CLICKED_PENDING", input |-> "NONE"]
    ELSE IF s = "PRESSED" THEN [state |-> "IDLE", input |-> "RELEASE"]
    ELSE IF s = "CLICKED_PENDING" THEN [state |-> "PRESSED_PENDING", input |-> "CLICK"]
    ELSE [state |-> s, input |-> "NONE"]

\* (mutant) the first accepted press is reported as a click.
EdgeTransitionIdleClicks(s) ==
    IF s = "IDLE" THEN [state |-> "PRESSED_PENDING", input |-> "CLICK"]
    ELSE IF s = "PRESSED_PENDING" THEN [state |-> "CLICKED_PENDING", input |-> "NONE"]
    ELSE IF s = "PRESSED" THEN [state |-> "IDLE", input |-> "RELEASE"]
    ELSE IF s = "CLICKED_PENDING" THEN [state |-> "CLICKED_PRESSED_PENDING", input |-> "NONE"]
    ELSE IF s = "CLICKED_PRESSED_PENDING" THEN [state |-> "DOUBLE_CLICKED_PENDING", input |-> "NONE"]
    ELSE IF s = "DOUBLE_CLICKED_PENDING" THEN [state |-> "DOUBLE_CLICKED_PRESSED_PENDING", input |-> "NONE"]
    ELSE IF s = "DOUBLE_CLICKED_PRESSED_PENDING" THEN [state |-> "CLICKED_PENDING", input |-> "DOUBLE_CLICK"]
    ELSE [state |-> s, input |-> "NONE"]

\* (mutant) the release of the third press ends the sequence.
EdgeTransitionDoubleEnds(s) ==
    IF s = "IDLE" THEN [state |-> "PRESSED_PENDING", input |-> "NONE"]
    ELSE IF s = "PRESSED_PENDING" THEN [state |-> "CLICKED_PENDING", input |-> "NONE"]
    ELSE IF s = "PRESSED" THEN [state |-> "IDLE", input |-> "RELEASE"]
    ELSE IF s = "CLICKED_PENDING" THEN [state |-> "CLICKED_PRESSED_PENDING", input |-> "NONE"]
    ELSE IF s = "CLICKED_PRESSED_PENDING" THEN [state |-> "DOUBLE_CLICKED_PENDING", input |-> "NONE"]
    ELSE IF s = "DOUBLE_CLICKED_PENDING" THEN [state |-> "DOUBLE_CLICKED_PRESSED_PENDING", input |-> "NONE"]
    ELSE IF s = "DOUBLE_CLICKED_PRESSED_PENDING" THEN [state |-> "IDLE", input |-> "DOUBLE_CLICK"]
    ELSE [state |-> s, input |-> "NONE"]

\* (mutant) the third click joins the double click instead of starting over.
EdgeTransitionThirdJoins(s) ==
    IF s = "IDLE" THEN [state |-> "PRESSED_PENDING", input |-> "NONE"]
    ELSE IF s = "PRESSED_PENDING" THEN [state |-> "CLICKED_PENDING", input |-> "NONE"]
    ELSE IF s = "PRESSED" THEN [state |-> "IDLE", input |-> "RELEASE"]
    ELSE IF s = "CLICKED_PENDING" THEN [state |-> "CLICKED_PRESSED_PENDING", input |-> "NONE"]
    ELSE IF s = "CLICKED_PRESSED_PENDING" THEN [state |-> "DOUBLE_CLICKED_PENDING", input |-> "NONE"]
    ELSE IF s = "DOUBLE_CLICKED_PENDING" THEN [state |-> "DOUBLE_CLICKED_PRESSED_PENDING", input |-> "NONE"]
    ELSE IF s = "DOUBLE_CLICKED_PRESSED_PENDING" THEN [state |-> "DOUBLE_CLICKED_PENDING", input |-> "DOUBLE_CLICK"]
    ELSE [state |-> s, input |-> "NONE"]

\* (mutant) a press after a pending click starts over and the click is
\* never reported.
EdgeTransitionSecondLost(s) ==
    IF s = "IDLE" THEN [state |-> "PRESSED_PENDING", input |-> "NONE"]
    ELSE IF s = "PRESSED_PENDING" THEN [state |-> "CLICKED_PENDING", input |-> "NONE"]
    ELSE IF s = "PRESSED" THEN [state |-> "IDLE", input |-> "RELEASE"]
    ELSE IF s = "CLICKED_PENDING" THEN [state |-> "PRESSED_PENDING", input |-> "NONE"]
    ELSE IF s = "CLICKED_PRESSED_PENDING" THEN [state |-> "DOUBLE_CLICKED_PENDING", input |-> "NONE"]
    ELSE IF s = "DOUBLE_CLICKED_PENDING" THEN [state |-> "DOUBLE_CLICKED_PRESSED_PENDING", input |-> "NONE"]
    ELSE IF s = "DOUBLE_CLICKED_PRESSED_PENDING" THEN [state |-> "CLICKED_PENDING", input |-> "DOUBLE_CLICK"]
    ELSE [state |-> s, input |-> "NONE"]

\* (mutant) the release of a long press leaves a click pending.
EdgeTransitionLongCountsAsClick(s) ==
    IF s = "IDLE" THEN [state |-> "PRESSED_PENDING", input |-> "NONE"]
    ELSE IF s \in {"PRESSED_PENDING", "PRESSED"} THEN [state |-> "CLICKED_PENDING", input |-> "NONE"]
    ELSE IF s = "CLICKED_PENDING" THEN [state |-> "CLICKED_PRESSED_PENDING", input |-> "NONE"]
    ELSE IF s = "CLICKED_PRESSED_PENDING" THEN [state |-> "DOUBLE_CLICKED_PENDING", input |-> "NONE"]
    ELSE IF s = "DOUBLE_CLICKED_PENDING" THEN [state |-> "DOUBLE_CLICKED_PRESSED_PENDING", input |-> "NONE"]
    ELSE IF s = "DOUBLE_CLICKED_PRESSED_PENDING" THEN [state |-> "CLICKED_PENDING", input |-> "DOUBLE_CLICK"]
    ELSE [state |-> s, input |-> "NONE"]

\* (mutant) the release of a short press is reported as RELEASE.
EdgeTransitionShortReleases(s) ==
    IF s = "IDLE" THEN [state |-> "PRESSED_PENDING", input |-> "NONE"]
    ELSE IF s \in {"PRESSED_PENDING", "PRESSED"} THEN [state |-> "IDLE", input |-> "RELEASE"]
    ELSE IF s = "CLICKED_PENDING" THEN [state |-> "CLICKED_PRESSED_PENDING", input |-> "NONE"]
    ELSE IF s = "CLICKED_PRESSED_PENDING" THEN [state |-> "DOUBLE_CLICKED_PENDING", input |-> "NONE"]
    ELSE IF s = "DOUBLE_CLICKED_PENDING" THEN [state |-> "DOUBLE_CLICKED_PRESSED_PENDING", input |-> "NONE"]
    ELSE IF s = "DOUBLE_CLICKED_PRESSED_PENDING" THEN [state |-> "CLICKED_PENDING", input |-> "DOUBLE_CLICK"]
    ELSE [state |-> s, input |-> "NONE"]

\* update(), lines 52-68: the state and Input after a debounced change.
EdgeTransition(s) ==
    IF s = "IDLE" THEN [state |-> "PRESSED_PENDING", input |-> "NONE"]
    ELSE IF s = "PRESSED_PENDING" THEN [state |-> "CLICKED_PENDING", input |-> "NONE"]
    ELSE IF s = "PRESSED" THEN [state |-> "IDLE", input |-> "RELEASE"]
    ELSE IF s = "CLICKED_PENDING" THEN [state |-> "CLICKED_PRESSED_PENDING", input |-> "NONE"]
    ELSE IF s = "CLICKED_PRESSED_PENDING" THEN [state |-> "DOUBLE_CLICKED_PENDING", input |-> "NONE"]
    ELSE IF s = "DOUBLE_CLICKED_PENDING" THEN [state |-> "DOUBLE_CLICKED_PRESSED_PENDING", input |-> "NONE"]
    ELSE IF s = "DOUBLE_CLICKED_PRESSED_PENDING" THEN [state |-> "CLICKED_PENDING", input |-> "DOUBLE_CLICK"]
    ELSE [state |-> s, input |-> "NONE"]

\* (mutant) the click is delivered at the timeout instead of after it.
ClickTimedOutInclusive(d) == d >= DOUBLE_CLICK_TIMEOUT_MS

\* update(), line 76: the pending click has waited out the double click.
ClickTimedOut(d) == d > DOUBLE_CLICK_TIMEOUT_MS

\* (mutant) the cutoff has to be exceeded.
CutoffExceeded(d) == d > CLICKED_CUTOFF_MS

\* update(), lines 81, 86, 91, 96: the state has lasted to the cutoff.
CutoffReached(d) == d >= CLICKED_CUTOFF_MS

\* (mutant) the click is delivered but the state is not reset to IDLE.
TimeoutTransitionClickStays(s, d) ==
    IF s = "CLICKED_PENDING" THEN
        IF d > DOUBLE_CLICK_TIMEOUT_MS THEN [state |-> s, input |-> "CLICK"]
        ELSE [state |-> s, input |-> "NONE"]
    ELSE IF s \in {"PRESSED_PENDING", "CLICKED_PRESSED_PENDING",
                   "DOUBLE_CLICKED_PRESSED_PENDING"} THEN
        IF d >= CLICKED_CUTOFF_MS
        THEN [state |-> "PRESSED",
              input |-> IF s = "PRESSED_PENDING" THEN "LONG_PRESS"
                        ELSE IF s = "CLICKED_PRESSED_PENDING" THEN "CLICK_AND_LONG_PRESS"
                        ELSE "DOUBLE_CLICK_AND_LONG_PRESS"]
        ELSE [state |-> s, input |-> "NONE"]
    ELSE IF s = "DOUBLE_CLICKED_PENDING" THEN
        IF d >= CLICKED_CUTOFF_MS THEN [state |-> "IDLE", input |-> "DOUBLE_CLICK"]
        ELSE [state |-> s, input |-> "NONE"]
    ELSE [state |-> s, input |-> "NONE"]

\* (mutant) the double click is delivered after the cutoff, like the click.
TimeoutTransitionDoubleClickLate(s, d) ==
    IF s = "CLICKED_PENDING" THEN
        IF ClickTimedOut(d) THEN [state |-> "IDLE", input |-> "CLICK"]
        ELSE [state |-> s, input |-> "NONE"]
    ELSE IF s = "PRESSED_PENDING" THEN
        IF CutoffReached(d) THEN [state |-> "PRESSED", input |-> "LONG_PRESS"]
        ELSE [state |-> s, input |-> "NONE"]
    ELSE IF s = "CLICKED_PRESSED_PENDING" THEN
        IF CutoffReached(d) THEN [state |-> "PRESSED", input |-> "CLICK_AND_LONG_PRESS"]
        ELSE [state |-> s, input |-> "NONE"]
    ELSE IF s = "DOUBLE_CLICKED_PENDING" THEN
        IF d > CLICKED_CUTOFF_MS THEN [state |-> "IDLE", input |-> "DOUBLE_CLICK"]
        ELSE [state |-> s, input |-> "NONE"]
    ELSE IF s = "DOUBLE_CLICKED_PRESSED_PENDING" THEN
        IF CutoffReached(d) THEN [state |-> "PRESSED", input |-> "DOUBLE_CLICK_AND_LONG_PRESS"]
        ELSE [state |-> s, input |-> "NONE"]
    ELSE [state |-> s, input |-> "NONE"]

\* (mutant) a long press ends the sequence at once.
TimeoutTransitionLongPressEnds(s, d) ==
    IF s = "CLICKED_PENDING" THEN
        IF ClickTimedOut(d) THEN [state |-> "IDLE", input |-> "CLICK"]
        ELSE [state |-> s, input |-> "NONE"]
    ELSE IF s = "PRESSED_PENDING" THEN
        IF CutoffReached(d) THEN [state |-> "IDLE", input |-> "LONG_PRESS"]
        ELSE [state |-> s, input |-> "NONE"]
    ELSE IF s = "CLICKED_PRESSED_PENDING" THEN
        IF CutoffReached(d) THEN [state |-> "PRESSED", input |-> "CLICK_AND_LONG_PRESS"]
        ELSE [state |-> s, input |-> "NONE"]
    ELSE IF s = "DOUBLE_CLICKED_PENDING" THEN
        IF CutoffReached(d) THEN [state |-> "IDLE", input |-> "DOUBLE_CLICK"]
        ELSE [state |-> s, input |-> "NONE"]
    ELSE IF s = "DOUBLE_CLICKED_PRESSED_PENDING" THEN
        IF CutoffReached(d) THEN [state |-> "PRESSED", input |-> "DOUBLE_CLICK_AND_LONG_PRESS"]
        ELSE [state |-> s, input |-> "NONE"]
    ELSE [state |-> s, input |-> "NONE"]

\* (mutant) the branch of DOUBLE_CLICKED_PENDING is missing.
TimeoutTransitionNoDoubleClick(s, d) ==
    IF s = "CLICKED_PENDING" THEN
        IF ClickTimedOut(d) THEN [state |-> "IDLE", input |-> "CLICK"]
        ELSE [state |-> s, input |-> "NONE"]
    ELSE IF s = "PRESSED_PENDING" THEN
        IF CutoffReached(d) THEN [state |-> "PRESSED", input |-> "LONG_PRESS"]
        ELSE [state |-> s, input |-> "NONE"]
    ELSE IF s = "CLICKED_PRESSED_PENDING" THEN
        IF CutoffReached(d) THEN [state |-> "PRESSED", input |-> "CLICK_AND_LONG_PRESS"]
        ELSE [state |-> s, input |-> "NONE"]
    ELSE IF s = "DOUBLE_CLICKED_PRESSED_PENDING" THEN
        IF CutoffReached(d) THEN [state |-> "PRESSED", input |-> "DOUBLE_CLICK_AND_LONG_PRESS"]
        ELSE [state |-> s, input |-> "NONE"]
    ELSE [state |-> s, input |-> "NONE"]

\* (mutant) a held second press is reported as a plain long press.
TimeoutTransitionNoCombo(s, d) ==
    IF s = "CLICKED_PENDING" THEN
        IF ClickTimedOut(d) THEN [state |-> "IDLE", input |-> "CLICK"]
        ELSE [state |-> s, input |-> "NONE"]
    ELSE IF s \in {"PRESSED_PENDING", "CLICKED_PRESSED_PENDING"} THEN
        IF CutoffReached(d) THEN [state |-> "PRESSED", input |-> "LONG_PRESS"]
        ELSE [state |-> s, input |-> "NONE"]
    ELSE IF s = "DOUBLE_CLICKED_PENDING" THEN
        IF CutoffReached(d) THEN [state |-> "IDLE", input |-> "DOUBLE_CLICK"]
        ELSE [state |-> s, input |-> "NONE"]
    ELSE IF s = "DOUBLE_CLICKED_PRESSED_PENDING" THEN
        IF CutoffReached(d) THEN [state |-> "PRESSED", input |-> "DOUBLE_CLICK_AND_LONG_PRESS"]
        ELSE [state |-> s, input |-> "NONE"]
    ELSE [state |-> s, input |-> "NONE"]

\* update(), lines 75-100: the state and Input while the debounced reading
\* stays as it is, d being duration(tm).
TimeoutTransition(s, d) ==
    IF s = "CLICKED_PENDING" THEN
        IF ClickTimedOut(d) THEN [state |-> "IDLE", input |-> "CLICK"]
        ELSE [state |-> s, input |-> "NONE"]
    ELSE IF s = "PRESSED_PENDING" THEN
        IF CutoffReached(d) THEN [state |-> "PRESSED", input |-> "LONG_PRESS"]
        ELSE [state |-> s, input |-> "NONE"]
    ELSE IF s = "CLICKED_PRESSED_PENDING" THEN
        IF CutoffReached(d) THEN [state |-> "PRESSED", input |-> "CLICK_AND_LONG_PRESS"]
        ELSE [state |-> s, input |-> "NONE"]
    ELSE IF s = "DOUBLE_CLICKED_PENDING" THEN
        IF CutoffReached(d) THEN [state |-> "IDLE", input |-> "DOUBLE_CLICK"]
        ELSE [state |-> s, input |-> "NONE"]
    ELSE IF s = "DOUBLE_CLICKED_PRESSED_PENDING" THEN
        IF CutoffReached(d) THEN [state |-> "PRESSED", input |-> "DOUBLE_CLICK_AND_LONG_PRESS"]
        ELSE [state |-> s, input |-> "NONE"]
    ELSE [state |-> s, input |-> "NONE"]

\* (mutant) a changed reading also restarts the time of the debounced state.
RestartDebounceAndDuration(self, r, tm) ==
    [self EXCEPT !.last_reading_change_tm = tm,
                 !.prev_reading = r,
                 !.last_change_tm = tm]

\* update(), lines 38-39: a changed reading restarts the debounce period.
RestartDebounce(self, r, tm) ==
    [self EXCEPT !.last_reading_change_tm = tm,
                 !.prev_reading = r]

\* (mutant) the last change time is written by the first change only.
ShiftChangeTimesFirstOnly(self, tm) ==
    [self EXCEPT !.prev_last_change_tm = self.last_change_tm,
                 !.last_change_tm = IF self.last_change_tm = 0 THEN tm ELSE @]

\* (mutant) the two assignments in the wrong order.
ShiftChangeTimesSwapped(self, tm) ==
    [self EXCEPT !.last_change_tm = tm, !.prev_last_change_tm = tm]

\* update(), lines 71-72: the change timestamps after a debounced change.
ShiftChangeTimes(self, tm) ==
    [self EXCEPT !.prev_last_change_tm = self.last_change_tm,
                 !.last_change_tm = tm]

\* Input update(bool reading, uint32_t tm): the button after the call and
\* the Input returned.
update(self, reading, tm) ==
    LET r == Normalize(self, reading)
        reading_duration == USub(tm, self.last_reading_change_tm)
    IN  IF ReadingChanged(self, r) THEN
            [self  |-> RestartDebounce(self, r, tm),
             input |-> "NONE"]
        ELSE IF self.debounced_reading # r THEN
            IF StillBouncing(reading_duration) THEN
                [self |-> self, input |-> "NONE"]
            ELSE
                LET e == EdgeTransition(self.state)
                IN  [self  |-> ShiftChangeTimes(
                                   [self EXCEPT !.state = e.state,
                                                !.debounced_reading = r], tm),
                     input |-> e.input]
        ELSE
            LET t == TimeoutTransition(self.state, duration(self, tm))
            IN  [self  |-> [self EXCEPT !.state = t.state],
                 input |-> t.input]

\* ----------------------------------------------------------- the callers
VARIABLES
    button,       \* the DebouncedButton object
    op,           \* the last call made on it: "construct" or "update"
    reading,      \* the raw reading passed to the last update()
    tm,           \* the timestamp passed to the last update()
    input,        \* the Input the last update() returned
    run_tm,       \* timestamp of the first call of the current run of
                  \* update() calls that passed the same raw reading
    acc_tm,       \* timestamp of the last call that flipped the debounced reading
    trail,        \* what happened from the last time the gesture state left
                  \* IDLE: "P"/"R" for an accepted press/release, and the
                  \* Inputs returned
    quiet_after,  \* the last Input returned, while the raw reading has not
                  \* changed since; "NONE" otherwise
    events,       \* the recorded history (SpecRecorded): see Record
    twin,         \* a second button to compare with: of the inverted polarity
                  \* and fed the inverted readings (SpecTwin), spared the
                  \* accessor calls (SpecCalls), on a counter that does not
                  \* wrap (SpecWrap), or freshly constructed (SpecRestart)
    twin_input,   \* the Input the last twin.update() returned
    acc_log,      \* the timestamps of the last two calls that flipped the
                  \* debounced reading, the latest last
    ret,          \* what the last accessor call returned (SpecCalls)
    short_open,   \* a press released less than CLICKED_CUTOFF_MS after it was
                  \* accepted has had no Input returned since its release
    backward      \* the number of update() calls whose timestamp was lower
                  \* than that of the call before

vars == <<button, op, reading, tm, input, run_tm, acc_tm, trail, quiet_after,
          events, twin, twin_input, acc_log, ret, short_open, backward>>

\* The raw reading r means "physically pressed" for this button.
IsPressed(r) == r = button.pressed_state

\* The call that took the button from b to b2 flipped the debounced reading.
Flipped(b, b2) == b2.debounced_reading # b.debounced_reading

\* The trail of the sequence in progress: empty once the sequence is over.
Since == IF button.state = "IDLE" THEN <<>> ELSE trail

\* A button of either polarity has been constructed and no call made; t0
\* is what the caller's timestamp counter shows.
InitAt(t0) ==
    /\ \E pressed_state \in BOOLEAN : button = DebouncedButton(pressed_state)
    /\ op = "construct"
    /\ reading = FALSE
    /\ tm = t0
    /\ input = "NONE"
    /\ run_tm = t0
    /\ acc_tm = 0
    /\ trail = <<>>
    /\ quiet_after = "NONE"
    /\ events = <<>>
    /\ twin_input = "NONE"
    /\ acc_log = <<>>
    /\ ret = [call |-> "none", value |-> 0]
    /\ short_open = FALSE
    /\ backward = 0

Init == InitAt(0) /\ twin = DebouncedButton(FALSE)

\* One call button.update(r, t), and what the observers note of it.
Call(r, t) ==
    LET res == update(button, r, t)
        new_run == op = "construct" \/ r # reading
        t1 == IF Flipped(button, res.self)
              THEN Append(Since, IF IsPressed(r) THEN "P" ELSE "R")
              ELSE Since
        t2 == IF res.input # "NONE" THEN Append(t1, res.input) ELSE t1
    IN  /\ button' = res.self
        /\ input' = res.input
        /\ op' = "update"
        /\ reading' = r
        /\ tm' = t
        /\ run_tm' = IF new_run THEN t ELSE run_tm
        /\ acc_tm' = IF Flipped(button, res.self) THEN t ELSE acc_tm
        /\ short_open' = IF /\ Flipped(button, res.self) /\ ~IsPressed(r)
                            /\ t - acc_tm < CLICKED_CUTOFF_MS
                         THEN TRUE
                         ELSE IF res.input # "NONE" THEN FALSE
                         ELSE short_open
        /\ backward' = IF t < tm THEN backward + 1 ELSE backward
        /\ acc_log' = IF ~Flipped(button, res.self) THEN acc_log
                      ELSE IF acc_log = <<>> THEN <<t>>
                      ELSE <<acc_log[Len(acc_log)], t>>
        /\ trail' = t2
        /\ quiet_after' = IF res.input # "NONE" THEN res.input
                          ELSE IF new_run THEN "NONE"
                          ELSE quiet_after

\* The caller polls with a timestamp that never goes back.
Update ==
    \E r \in BOOLEAN, d \in Steps :
        /\ tm + d <= MaxTime
        /\ Call(r, tm + d)
        /\ UNCHANGED <<events, twin, twin_input, ret>>

Next == Update

Spec == Init /\ [][Next]_vars

\* The history of the button from its construction, as a caller sees it:
\*   "P"      a press is accepted (the debounced reading flips to pressed);
\*   "P_late" the same, the raw change of this press having been observed
\*            more than DOUBLE_CLICK_TIMEOUT_MS after the call that
\*            accepted the release before it;
\*   "R"      a release is accepted;
\*   "idle"   the first call that repeats the released reading more than
\*            DOUBLE_CLICK_TIMEOUT_MS after the call that accepted the
\*            last release;
\*   and every Input other than NONE that update() returns.
Gestures(ev) == SelectSeq(ev, LAMBDA e : e \in Inputs)

Marks(ev) == SelectSeq(ev, LAMBDA e : e \notin Inputs)

LastMark(ev) == IF Marks(ev) = <<>> THEN "" ELSE Marks(ev)[Len(Marks(ev))]

Record(ev, r, t, res) ==
    LET flip == Flipped(button, res.self)
        begun == IF op = "construct" \/ r # reading THEN t ELSE run_tm
        e1 == IF flip /\ IsPressed(r) THEN
                  IF LastMark(ev) \in {"R", "idle"}
                        /\ begun > acc_tm + DOUBLE_CLICK_TIMEOUT_MS
                  THEN Append(ev, "P_late") ELSE Append(ev, "P")
              ELSE IF flip THEN Append(ev, "R")
              ELSE IF /\ op = "update" /\ r = reading /\ ~IsPressed(r)
                      /\ LastMark(ev) = "R"
                      /\ t > acc_tm + DOUBLE_CLICK_TIMEOUT_MS
              THEN Append(ev, "idle")
              ELSE ev
    IN  IF res.input # "NONE" THEN Append(e1, res.input) ELSE e1

UpdateRecorded ==
    \E r \in BOOLEAN, d \in StepsRecorded :
        /\ tm + d <= MaxTimeRecorded
        /\ Call(r, tm + d)
        /\ events' = Record(events, r, tm + d, update(button, r, tm + d))
        /\ UNCHANGED <<twin, twin_input, ret>>

NextRecorded == UpdateRecorded

SpecRecorded == Init /\ [][NextRecorded]_vars

\* A button of the default polarity and its twin of the inverted polarity,
\* polled together: the twin gets the inverted reading at the same time.
InitTwin == Init /\ button = DebouncedButton(TRUE)

UpdateTwin ==
    \E r \in BOOLEAN, d \in Steps :
        /\ tm + d <= MaxTimeTwin
        /\ Call(r, tm + d)
        /\ twin' = update(twin, ~r, tm + d).self
        /\ twin_input' = update(twin, ~r, tm + d).input
        /\ UNCHANGED <<events, ret>>

NextTwin == UpdateTwin

SpecTwin == InitTwin /\ [][NextTwin]_vars

\* A caller that uses the whole interface.  The twin is a button of the
\* same polarity that gets the same update() and reset_duration() calls
\* and none of the accessor calls.
InitCalls == InitAt(0) /\ twin = button

Observers == <<reading, tm, input, run_tm, acc_tm, trail, quiet_after,
               events, acc_log, short_open, backward>>

UpdateCalls ==
    \E r \in BOOLEAN, d \in Steps :
        /\ tm + d <= MaxTimeCalls
        /\ Call(r, tm + d)
        /\ twin' = update(twin, r, tm + d).self
        /\ twin_input' = update(twin, r, tm + d).input
        /\ UNCHANGED <<events, ret>>

\* button.reset_duration()
ResetDuration ==
    /\ button' = reset_duration(button)
    /\ twin' = reset_duration(twin)
    /\ op' = "reset_duration"
    /\ UNCHANGED <<Observers, twin_input, ret>>

\* button.state(): a const member function, the object is not written.
GetState ==
    /\ ret' = [call |-> "state", value |-> state(button)]
    /\ op' = "state"
    /\ UNCHANGED <<button, Observers, twin, twin_input>>

\* (mutant) duration(t) remembers the time it was asked about.
GetDurationStores ==
    \E t \in DurationArgs :
        /\ ret' = [call |-> "duration", value |-> duration(button, t)]
        /\ op' = "duration"
        /\ button' = [button EXCEPT !.last_change_tm = t]
        /\ UNCHANGED <<Observers, twin, twin_input>>

\* button.duration(t), const
GetDuration ==
    \E t \in DurationArgs :
        /\ ret' = [call |-> "duration", value |-> duration(button, t)]
        /\ op' = "duration"
        /\ UNCHANGED <<button, Observers, twin, twin_input>>

\* button.prev_duration(t), const
GetPrevDuration ==
    \E t \in DurationArgs :
        /\ ret' = [call |-> "prev_duration", value |-> prev_duration(button, t)]
        /\ op' = "prev_duration"
        /\ UNCHANGED <<button, Observers, twin, twin_input>>

NextCalls ==
    \/ UpdateCalls
    \/ ResetDuration
    \/ GetState
    \/ GetDuration
    \/ GetPrevDuration

SpecCalls == InitCalls /\ [][NextCalls]_vars

\* A caller whose raw reading stops changing: it may pass a changed
\* reading up to MaxChangeTime, and goes on polling with the reading it
\* passed last, at later and later timestamps, for SettleTime more.
Change ==
    \E r \in BOOLEAN, d \in Steps :
        /\ op = "construct" \/ r # reading
        /\ tm + d <= MaxChangeTime
        /\ Call(r, tm + d)
        /\ UNCHANGED <<events, twin, twin_input, ret>>

Poll ==
    \E d \in StepsSettled :
        /\ op = "update"
        /\ tm + d <= MaxChangeTime + SettleTime
        /\ Call(reading, tm + d)
        /\ UNCHANGED <<events, twin, twin_input, ret>>

NextSettling == Change \/ Poll

\* update() keeps being called with increasing timestamps.
SpecSettling == Init /\ [][NextSettling]_vars /\ WF_vars(Poll)

\* ---------------------------------------------------------------- claims
\* This step is an update() call (the only step that sets op to "update"
\* and is not a stuttering step).
IsUpdate == op' = "update"

\* C1 - Debounce suppression: an update() call whose raw reading differs
\* from the reading of the previous update() call, made less than
\* DEBOUNCE_MS after it, returns NONE and changes neither the debounced
\* reading, nor state(), nor the gesture state.
DebounceSuppression ==
    [][(IsUpdate /\ op = "update" /\ reading' # reading
            /\ tm' >= tm /\ tm' - tm < DEBOUNCE_MS)
        => (/\ input' = "NONE"
            /\ button'.debounced_reading = button.debounced_reading
            /\ state(button') = state(button)
            /\ button'.state = button.state)]_vars

\* A bounce seen while a press is pending: the last call changed the raw
\* reading to released less than DEBOUNCE_MS after the press was accepted.
DebounceSuppressionWitness ==
    /\ op = "update"
    /\ button.state = "PRESSED_PENDING"
    /\ ~IsPressed(reading)
    /\ run_tm = tm
    /\ tm > acc_tm
    /\ tm - acc_tm < DEBOUNCE_MS
    /\ input = "NONE"

\* C2 - Debounce invariant: an update() call flips the debounced reading
\* only if the reading it passes was first passed by an earlier call at
\* least DEBOUNCE_MS before, and by every call since.
DebounceInvariant ==
    [][(IsUpdate /\ Flipped(button, button'))
        => (/\ op = "update"
            /\ reading' = reading
            /\ tm' - run_tm >= DEBOUNCE_MS)]_vars

\* The call repeats the previous call's raw reading, pressed or released.
StablePressed == op = "update" /\ reading' = reading /\ IsPressed(reading')

StableReleased == op = "update" /\ reading' = reading /\ ~IsPressed(reading')

\* C3 - Single click: after one press and its release, accepted at acc_tm
\* with nothing returned, a call repeating the released reading returns
\* CLICK if its timestamp is more than DOUBLE_CLICK_TIMEOUT_MS after acc_tm
\* and NONE otherwise; no call up to acc_tm + DOUBLE_CLICK_TIMEOUT_MS
\* returns CLICK; after the CLICK, calls return NONE while the reading
\* stays as it is.
SingleClick ==
    [][IsUpdate =>
        /\ (Since = <<"P", "R">> /\ StableReleased)
            => input' = IF tm' > acc_tm + DOUBLE_CLICK_TIMEOUT_MS
                        THEN "CLICK" ELSE "NONE"
        /\ (Since = <<"P", "R">> /\ tm' <= acc_tm + DOUBLE_CLICK_TIMEOUT_MS)
            => input' # "CLICK"
        /\ (quiet_after = "CLICK" /\ reading' = reading)
            => input' = "NONE"]_vars

\* The click of one short press has been delivered.
SingleClickWitness ==
    /\ trail = <<"P", "R", "CLICK">>
    /\ input = "CLICK"
    /\ button.state = "IDLE"
    /\ tm > acc_tm + DOUBLE_CLICK_TIMEOUT_MS

\* C4 - Long press then release: after a press accepted at acc_tm from
\* IDLE, a call repeating the pressed reading returns LONG_PRESS if its
\* timestamp is at least acc_tm + CLICKED_CUTOFF_MS and NONE before; once
\* LONG_PRESS is returned the calls with the pressed reading return NONE,
\* and the first call at which the released reading has lasted
\* DEBOUNCE_MS returns RELEASE.
LongPressThenRelease ==
    [][IsUpdate =>
        /\ (Since = <<"P">> /\ StablePressed)
            => input' = IF tm' >= acc_tm + CLICKED_CUTOFF_MS
                        THEN "LONG_PRESS" ELSE "NONE"
        /\ (Since = <<"P", "LONG_PRESS">> /\ IsPressed(reading'))
            => input' = "NONE"
        /\ (Since = <<"P", "LONG_PRESS">> /\ StableReleased)
            => input' = IF tm' - run_tm >= DEBOUNCE_MS
                        THEN "RELEASE" ELSE "NONE"]_vars

\* A long press has been released.
LongPressThenReleaseWitness ==
    /\ trail = <<"P", "LONG_PRESS", "R", "RELEASE">>
    /\ input = "RELEASE"
    /\ button.state = "IDLE"
    /\ tm - run_tm >= DEBOUNCE_MS

\* C5 - Double click: two press/release cycles without a long press, the
\* second press observed before DOUBLE_CLICK_TIMEOUT_MS has passed since
\* the first release was accepted, then a released reading that stays:
\* every call returns NONE, except the first call repeating the released
\* reading at least CLICKED_CUTOFF_MS after the second release was
\* accepted, which returns DOUBLE_CLICK; no call returns CLICK, and after
\* the DOUBLE_CLICK calls return NONE while the reading stays as it is.
DoubleClick ==
    [][IsUpdate =>
        /\ (/\ Since = <<"P", "R">>
            /\ \/ tm' < acc_tm + DOUBLE_CLICK_TIMEOUT_MS
               \/ IsPressed(reading'))
            => input' = "NONE"
        /\ (/\ Since = <<"P", "R", "P">>
            /\ \/ tm' < acc_tm + CLICKED_CUTOFF_MS
               \/ ~IsPressed(reading'))
            => input' = "NONE"
        /\ (Since = <<"P", "R", "P", "R">> /\ StableReleased)
            => input' = IF tm' >= acc_tm + CLICKED_CUTOFF_MS
                        THEN "DOUBLE_CLICK" ELSE "NONE"
        /\ (Since = <<"P", "R", "P", "R">>)
            => input' \in {"NONE", "DOUBLE_CLICK"}
        /\ (quiet_after = "DOUBLE_CLICK" /\ button.state = "IDLE"
                /\ reading' = reading)
            => input' = "NONE"]_vars

\* The double click of two short presses has been delivered.
DoubleClickWitness ==
    /\ trail = <<"P", "R", "P", "R", "DOUBLE_CLICK">>
    /\ input = "DOUBLE_CLICK"
    /\ button.state = "IDLE"
    /\ tm >= acc_tm + CLICKED_CUTOFF_MS

\* C7 - Click and long press: after a short press/release cycle whose
\* click is still pending, a second press accepted at acc_tm and held: a
\* call repeating the pressed reading returns CLICK_AND_LONG_PRESS if its
\* timestamp is at least acc_tm + CLICKED_CUTOFF_MS and NONE before; no
\* call returns CLICK or LONG_PRESS; the release, once it is accepted,
\* returns RELEASE.
ClickAndLongPress ==
    [][IsUpdate =>
        /\ (Since = <<"P", "R", "P">> /\ StablePressed)
            => input' = IF tm' >= acc_tm + CLICKED_CUTOFF_MS
                        THEN "CLICK_AND_LONG_PRESS" ELSE "NONE"
        /\ (Since \in {<<"P", "R", "P">>, <<"P", "R", "P", "CLICK_AND_LONG_PRESS">>})
            => input' \notin {"CLICK", "LONG_PRESS"}
        /\ (Since = <<"P", "R", "P", "CLICK_AND_LONG_PRESS">>)
            => input' = IF Flipped(button, button') THEN "RELEASE" ELSE "NONE"
        /\ (Since = <<"P", "R", "P", "CLICK_AND_LONG_PRESS">> /\ StableReleased
                /\ tm' - run_tm >= DEBOUNCE_MS)
            => Flipped(button, button')]_vars

\* A click and long press has been released.
ClickAndLongPressWitness ==
    /\ trail = <<"P", "R", "P", "CLICK_AND_LONG_PRESS", "R", "RELEASE">>
    /\ input = "RELEASE"
    /\ button.state = "IDLE"

\* C6 - Two separate clicks, as claimed (for a button of the default
\* polarity): two short press/release cycles, the second press beginning
\* more than DOUBLE_CLICK_TIMEOUT_MS after the call that accepted the first
\* release, followed by a released reading that outlasts the timeout,
\* return two CLICKs and nothing else.
TwoSeparateClicksAnyPolling ==
    (/\ button.pressed_state
     /\ Marks(events) \in {<<"P", "R", "P_late", "R", "idle">>,
                           <<"P", "R", "idle", "P_late", "R", "idle">>})
        => Gestures(events) = <<"CLICK", "CLICK">>

\* C6 - Two separate clicks, amended: the same, provided that a call
\* repeating the released reading is made more than
\* DOUBLE_CLICK_TIMEOUT_MS after the call that accepted the first release
\* and before the raw change of the second press is observed.
TwoSeparateClicks ==
    Marks(events) = <<"P", "R", "idle", "P_late", "R", "idle">>
        => Gestures(events) = <<"CLICK", "CLICK">>

\* Both clicks have been delivered, each by the poll after its timeout.
TwoSeparateClicksWitness ==
    events = <<"P", "R", "idle", "CLICK", "P_late", "R", "idle", "CLICK">>

\* C8 - Polarity inversion: a button constructed with pressed_state = false
\* and fed the inverted readings returns the same Input, call by call, as
\* a button constructed with pressed_state = true fed the readings.
PolarityInversion == twin_input = input

\* The accepted level of the button: pressed iff the last accepted edge of
\* its history is a press.
Edges == SelectSeq(trail, LAMBDA e : e \in {"P", "R"})

DebouncedPressed == Edges # <<>> /\ Edges[Len(Edges)] = "P"

\* C9 - state() is true exactly when the debounced state of the button is
\* pressed, for either polarity; a fresh button reports false.
StateReportsPressed == state(button) <=> DebouncedPressed

\* C10 - duration(t) is t minus the time of the last debounced change when
\* t is not earlier than it, and 0 when t is earlier.
DurationFloorsAtZero ==
    \A t \in 0..MaxTime :
        duration(button, t) = IF t >= button.last_change_tm
                              THEN t - button.last_change_tm
                              ELSE 0

\* The three long-press Inputs, and the five pending states.
LongPresses == {"LONG_PRESS", "CLICK_AND_LONG_PRESS", "DOUBLE_CLICK_AND_LONG_PRESS"}

PendingStates == {"PRESSED_PENDING", "CLICKED_PENDING", "CLICKED_PRESSED_PENDING",
                  "DOUBLE_CLICKED_PENDING", "DOUBLE_CLICKED_PRESSED_PENDING"}

\* C11 - Release pairing: in the sequence of the Inputs returned (NONE
\* left out), every RELEASE comes right after a long-press Input, and what
\* comes right after a long-press Input is always RELEASE.
ReleasePairing ==
    LET g == Gestures(events)
    IN  \A i \in 1..Len(g) :
            /\ g[i] = "RELEASE" => (i > 1 /\ g[i - 1] \in LongPresses)
            /\ (g[i] \in LongPresses /\ i < Len(g)) => g[i + 1] = "RELEASE"

\* A double click and long press has been released.
ReleasePairingWitness ==
    Gestures(events) = <<"DOUBLE_CLICK_AND_LONG_PRESS", "RELEASE">>

\* C12 - Pending states resolve: when update() keeps being called with
\* increasing timestamps and the raw reading stops changing, a pending
\* gesture state leads to a call that returns an Input other than NONE and
\* leaves the pending states.
PendingResolves ==
    (button.state \in PendingStates)
        ~> (button.state \notin PendingStates /\ input # "NONE")

\* A pending double click has been resolved by the polling.
PendingResolvesWitness ==
    /\ trail = <<"P", "R", "P", "R", "DOUBLE_CLICK">>
    /\ button.state = "IDLE"
    /\ input = "DOUBLE_CLICK"
    /\ tm > MaxChangeTime

\* A caller on a 10 ms clock that once takes a step one millisecond short
\* of or past a threshold, and is on a clock shifted by that much after it.
UpdateFine ==
    \E r \in BOOLEAN, d \in StepsGrid \cup StepsOffGrid :
        /\ d \in StepsOffGrid => tm % 10 = 0
        /\ tm + d <= MaxTimeFine
        /\ Call(r, tm + d)
        /\ UNCHANGED <<events, twin, twin_input, ret>>

NextFine == UpdateFine

SpecFine == Init /\ [][NextFine]_vars

\* A caller whose timestamps may go back: MaxBackward of its calls pass a
\* timestamp lower than the call before.
UpdateForward ==
    \E r \in BOOLEAN, d \in Steps :
        /\ tm + d <= MaxTimeRegress
        /\ Call(r, tm + d)
        /\ UNCHANGED <<events, twin, twin_input, ret>>

UpdateEarlier ==
    \E r \in BOOLEAN, d \in StepsBack :
        /\ op = "update"
        /\ backward < MaxBackward
        /\ tm - d >= 0
        /\ Call(r, tm - d)
        /\ UNCHANGED <<events, twin, twin_input, ret>>

NextRegress == UpdateForward \/ UpdateEarlier

SpecRegress == Init /\ [][NextRegress]_vars

\* A caller whose timestamp counter wraps to 0 while it polls.  The twin is
\* a button of the same polarity that gets the same readings at the same
\* moments, with the timestamps of a counter that does not wrap.
InitWrap == InitAt(UINT_MODULUS - WrapLead) /\ twin = button

\* The time since the first timestamp of the wrapping counter.
Elapsed == USub(tm, UINT_MODULUS - WrapLead)

UpdateWrap ==
    \E r \in BOOLEAN, d \in Steps :
        /\ Elapsed + d <= MaxTimeWrap
        /\ Call(r, (tm + d) % UINT_MODULUS)
        /\ twin' = update(twin, r, TwinBase + Elapsed + d).self
        /\ twin_input' = update(twin, r, TwinBase + Elapsed + d).input
        /\ UNCHANGED <<events, ret>>

NextWrap == UpdateWrap

SpecWrap == InitWrap /\ [][NextWrap]_vars

\* A button and, next to it, a button of the default polarity that gets
\* the same calls (the readings as the first button understands them).
\* Before any call in which the first button is in IDLE and the last
\* reading it saw is released, the caller may replace the second button by
\* a freshly constructed one.
InitRestart == InitAt(0) /\ twin = [button EXCEPT !.pressed_state = TRUE]

UpdateRestart ==
    \E r \in BOOLEAN, d \in StepsRecorded, fresh \in BOOLEAN :
        /\ tm + d <= MaxTimeRestart
        /\ fresh => (button.state = "IDLE" /\ ~button.prev_reading)
        /\ LET base == IF fresh THEN DebouncedButton(TRUE) ELSE twin
               res == update(base, Normalize(button, r), tm + d)
           IN  /\ twin' = res.self
               /\ twin_input' = res.input
        /\ Call(r, tm + d)
        /\ events' = Record(events, r, tm + d, update(button, r, tm + d))
        /\ UNCHANGED ret

NextRestart == UpdateRestart

SpecRestart == InitRestart /\ [][NextRestart]_vars

\* A caller that polls a button of either polarity and calls
\* reset_duration() whenever it likes.
UpdateResets ==
    \E r \in BOOLEAN, d \in Steps :
        /\ tm + d <= MaxTimeResets
        /\ Call(r, tm + d)
        /\ UNCHANGED <<events, twin, twin_input, ret>>

NextResets == UpdateResets \/ ResetDuration

SpecResets == Init /\ [][NextResets]_vars

LastOf(seq) == IF seq = <<>> THEN "" ELSE seq[Len(seq)]

\* The call accepts a release: the debounced reading flips to released.
AcceptsRelease == IsUpdate /\ Flipped(button, button') /\ ~IsPressed(reading')

ShortPressOnlyClicks ==
    [][(IsUpdate /\ button.pressed_state) =>
        /\ (AcceptsRelease /\ tm' - acc_tm < CLICKED_CUTOFF_MS)
            => (LastOf(Since) = "P" /\ input' \in {"NONE", "DOUBLE_CLICK"})
        /\ short_open
            => input' \in {"NONE", "CLICK", "DOUBLE_CLICK"}]_vars

\* C14 - Short side of the cutoff, amended: such a press returns no
\* long-press Input while it is held and no RELEASE when it is released
\* (it leaves a click pending); the first Input returned after its release
\* is CLICK or DOUBLE_CLICK, or CLICK_AND_LONG_PRESS or
\* DOUBLE_CLICK_AND_LONG_PRESS when a following press is held to the cutoff.
ShortPressIsClick ==
    [][IsUpdate =>
        /\ (AcceptsRelease /\ tm' - acc_tm < CLICKED_CUTOFF_MS)
            => /\ LastOf(Since) = "P"
               /\ input' \in {"NONE", "DOUBLE_CLICK"}
               /\ button'.state \in {"CLICKED_PENDING", "DOUBLE_CLICKED_PENDING"}
        /\ short_open
            => input' \in {"NONE", "CLICK", "DOUBLE_CLICK",
                           "CLICK_AND_LONG_PRESS", "DOUBLE_CLICK_AND_LONG_PRESS"}]_vars

\* A short press has been released and nothing has been returned for it yet.
ShortPressIsClickWitness ==
    /\ short_open
    /\ trail = <<"P", "R">>
    /\ button.state = "CLICKED_PENDING"
    /\ Len(acc_log) = 2
    /\ acc_log[2] - acc_log[1] < CLICKED_CUTOFF_MS

\* C15 - Initial state: on a freshly constructed button, before any
\* update call, state() is false, duration(t) is t for every t, and
\* prev_duration is 0.
InitialState ==
    op = "construct" =>
        /\ ~state(button)
        /\ \A t \in 0..MaxTime : duration(button, t) = t
        /\ prev_duration(button, 0) = 0

\* C16 - First reading: an update call made while the gesture state is
\* IDLE, the first call on a fresh button among them, returns NONE.
FirstReading ==
    [][(IsUpdate /\ button.state = "IDLE") => input' = "NONE"]_vars

\* The first press has been accepted, from IDLE, and NONE was returned.
FirstReadingWitness ==
    /\ op = "update"
    /\ trail = <<"P">>
    /\ button.state = "PRESSED_PENDING"
    /\ input = "NONE"

\* C17 - reset_duration sets the last change time and the one before to 0
\* and leaves the other fields alone; right after it duration(t) = t for
\* every t and prev_duration is 0.
ResetDurationFrame ==
    [][op' = "reset_duration" =>
        /\ button'.last_change_tm = 0
        /\ button'.prev_last_change_tm = 0
        /\ button'.state = button.state
        /\ button'.debounced_reading = button.debounced_reading
        /\ button'.prev_reading = button.prev_reading
        /\ button'.last_reading_change_tm = button.last_reading_change_tm
        /\ button'.pressed_state = button.pressed_state
        /\ \A t \in 0..MaxTimeCalls : duration(button', t) = t
        /\ prev_duration(button', 0) = 0]_vars

\* reset_duration() was called in the middle of a sequence, after two
\* debounced changes.
ResetDurationFrameWitness ==
    /\ op = "reset_duration"
    /\ button.state = "CLICKED_PENDING"
    /\ Len(acc_log) = 2
    /\ button.last_reading_change_tm > 0
    /\ button.last_change_tm = 0
    /\ button.prev_last_change_tm = 0

\* C18 - Timing bookkeeping: update() changes the two change times only
\* when it accepts a debounced change, the older one taking the last one
\* and the last one the call's timestamp; prev_duration is then the time
\* between the two most recent accepting calls.
TimingBookkeeping ==
    [][IsUpdate =>
        /\ IF Flipped(button, button')
           THEN /\ button'.prev_last_change_tm = button.last_change_tm
                /\ button'.last_change_tm = tm'
           ELSE /\ button'.prev_last_change_tm = button.prev_last_change_tm
                /\ button'.last_change_tm = button.last_change_tm
        /\ Len(acc_log') = 2
            => prev_duration(button', tm') = acc_log'[2] - acc_log'[1]]_vars

\* Two changes were accepted at different times, and a later call that
\* accepted nothing has left the times alone.
TimingBookkeepingWitness ==
    /\ op = "update"
    /\ Len(acc_log) = 2
    /\ acc_log[1] > 0
    /\ acc_log[2] > acc_log[1]
    /\ tm > acc_log[2]
    /\ button.prev_last_change_tm = acc_log[1]
    /\ button.last_change_tm = acc_log[2]
    /\ prev_duration(button, tm) = acc_log[2] - acc_log[1]

\* C19 - Accessors do not mutate: a button on which state(), duration(t)
\* and prev_duration(t) are called between its update calls has the fields
\* and returns the Inputs of a twin that gets the same update calls and
\* no accessor call.
AccessorsDoNotMutate ==
    /\ twin = button
    /\ twin_input = input

\* An update call that accepted a release, made after an accessor call.
AccessorsDoNotMutateWitness ==
    /\ ret.call # "none"
    /\ op = "update"
    /\ tm = acc_tm
    /\ button.state = "CLICKED_PENDING"

\* C20 - Edge-driven transitions: a call that accepts a debounced change
\* takes the gesture state through exactly one row of the claimed table
\* (state before, state after, Input returned) and returns that row's
\* Input; no timeout is applied on top of it.
EdgeDrivenTransitions ==
    [][(IsUpdate /\ Flipped(button, button'))
        => <<button.state, button'.state, input'>> \in
            { <<"IDLE", "PRESSED_PENDING", "NONE">>,
              <<"PRESSED_PENDING", "CLICKED_PENDING", "NONE">>,
              <<"PRESSED", "IDLE", "RELEASE">>,
              <<"CLICKED_PENDING", "CLICKED_PRESSED_PENDING", "NONE">>,
              <<"CLICKED_PRESSED_PENDING", "DOUBLE_CLICKED_PENDING", "NONE">>,
              <<"DOUBLE_CLICKED_PENDING", "DOUBLE_CLICKED_PRESSED_PENDING", "NONE">>,
              <<"DOUBLE_CLICKED_PRESSED_PENDING", "CLICKED_PENDING", "DOUBLE_CLICK">> }]_vars

\* The release of a third short press was accepted: the last row.
EdgeDrivenTransitionsWitness ==
    /\ op = "update"
    /\ button.state = "CLICKED_PENDING"
    /\ input = "DOUBLE_CLICK"
    /\ Len(trail) = 7
    /\ trail[7] = "DOUBLE_CLICK"

\* The call passes the reading of the previous call.
SameReading == IsUpdate /\ Normalize(button, reading') = button.prev_reading

\* C21 - Duration-driven transitions: in a call whose reading is that of
\* the previous call and the debounced one, with d the timestamp less the
\* last change time, CLICKED_PENDING returns CLICK and goes to IDLE iff
\* d > 150; the three pressed pending states return their long press and
\* go to PRESSED iff d >= 150; DOUBLE_CLICKED_PENDING returns DOUBLE_CLICK
\* and goes to IDLE iff d >= 150; in every other case the call returns
\* NONE and changes nothing.
DurationDrivenTransitions ==
    [][(SameReading /\ button.prev_reading = button.debounced_reading) =>
        LET s == button.state
            d == tm' - button.last_change_tm
            fires == \/ s = "CLICKED_PENDING" /\ d > 150
                     \/ s \in {"PRESSED_PENDING", "CLICKED_PRESSED_PENDING",
                                "DOUBLE_CLICKED_PRESSED_PENDING",
                                "DOUBLE_CLICKED_PENDING"} /\ d >= 150
        IN  IF fires
            THEN /\ input' = CASE s = "CLICKED_PENDING" -> "CLICK"
                               [] s = "PRESSED_PENDING" -> "LONG_PRESS"
                               [] s = "CLICKED_PRESSED_PENDING" -> "CLICK_AND_LONG_PRESS"
                               [] s = "DOUBLE_CLICKED_PRESSED_PENDING" -> "DOUBLE_CLICK_AND_LONG_PRESS"
                               [] s = "DOUBLE_CLICKED_PENDING" -> "DOUBLE_CLICK"
                 /\ button'.state = IF s \in {"CLICKED_PENDING", "DOUBLE_CLICKED_PENDING"}
                                    THEN "IDLE" ELSE "PRESSED"
            ELSE /\ input' = "NONE"
                 /\ button' = button]_vars

\* A pending click polled exactly DOUBLE_CLICK_TIMEOUT_MS after the release
\* was accepted: nothing is returned.
DurationDrivenTransitionsWitness ==
    /\ op = "update"
    /\ button.state = "CLICKED_PENDING"
    /\ button.prev_reading = button.debounced_reading
    /\ tm > button.last_reading_change_tm
    /\ tm - button.last_change_tm = 150
    /\ input = "NONE"

\* C22 - Raw-change call frame: a call whose reading differs from the
\* previous call's returns NONE and writes only the previous reading and
\* the last raw change time (the call's timestamp), also when a timeout is
\* overdue.
RawChangeFrame ==
    [][(IsUpdate /\ Normalize(button, reading') # button.prev_reading) =>
        /\ input' = "NONE"
        /\ button'.prev_reading = Normalize(button, reading')
        /\ button'.last_reading_change_tm = tm'
        /\ button'.state = button.state
        /\ button'.debounced_reading = button.debounced_reading
        /\ button'.last_change_tm = button.last_change_tm
        /\ button'.prev_last_change_tm = button.prev_last_change_tm
        /\ button'.pressed_state = button.pressed_state]_vars

\* The press was observed after the pending click's timeout had run out,
\* and the click is still pending.
RawChangeFrameWitness ==
    /\ op = "update"
    /\ button.state = "CLICKED_PENDING"
    /\ button.prev_reading # button.debounced_reading
    /\ button.last_reading_change_tm = tm
    /\ tm - button.last_change_tm > DOUBLE_CLICK_TIMEOUT_MS
    /\ input = "NONE"

\* C23 - Debounce threshold: in a call whose reading is that of the
\* previous call and not the debounced one, the debounced reading flips iff
\* the timestamp is DEBOUNCE_MS or more after the last raw change; when it
\* does not flip the call returns NONE and changes no field.
DebounceThreshold ==
    [][(SameReading /\ button.prev_reading # button.debounced_reading) =>
        /\ Flipped(button, button')
            <=> tm' - button.last_reading_change_tm >= DEBOUNCE_MS
        /\ ~Flipped(button, button')
            => (input' = "NONE" /\ button' = button)]_vars

\* A release polled 19 ms after it was observed, more than the click
\* cutoff after the press was accepted: the press is still pending.
DebounceThresholdWitness ==
    /\ op = "update"
    /\ button.state = "PRESSED_PENDING"
    /\ button.prev_reading # button.debounced_reading
    /\ tm - button.last_reading_change_tm = 19
    /\ tm - button.last_change_tm >= CLICKED_CUTOFF_MS
    /\ input = "NONE"

\* C24 - Three rapid clicks: the call that accepts the release of a third
\* press in a row, nothing having been returned since IDLE, returns
\* DOUBLE_CLICK and leaves a click pending; while the released reading is
\* repeated that click is returned as CLICK by the first call made more
\* than DOUBLE_CLICK_TIMEOUT_MS after the third release was accepted, and
\* not before; after a fourth press and release instead, the second
\* DOUBLE_CLICK is returned at the cutoff.
ThreeRapidClicks ==
    [][IsUpdate =>
        /\ (Since = <<"P", "R", "P", "R", "P">> /\ Flipped(button, button'))
            => /\ input' = "DOUBLE_CLICK"
               /\ button'.state = "CLICKED_PENDING"
        /\ (Since = <<"P", "R", "P", "R", "P", "R", "DOUBLE_CLICK">>
                /\ StableReleased)
            => IF tm' > acc_tm + DOUBLE_CLICK_TIMEOUT_MS
               THEN input' = "CLICK" /\ button'.state = "IDLE"
               ELSE input' = "NONE" /\ button'.state = "CLICKED_PENDING"
        /\ (Since = <<"P", "R", "P", "R", "P", "R", "DOUBLE_CLICK", "P", "R">>
                /\ StableReleased)
            => IF tm' >= acc_tm + CLICKED_CUTOFF_MS
               THEN input' = "DOUBLE_CLICK" /\ button'.state = "IDLE"
               ELSE input' = "NONE" /\ button'.state = "DOUBLE_CLICKED_PENDING"]_vars

\* Three clicks came out as DOUBLE_CLICK and then CLICK.
ThreeRapidClicksWitness ==
    /\ trail = <<"P", "R", "P", "R", "P", "R", "DOUBLE_CLICK", "CLICK">>
    /\ Gestures(events) = <<"DOUBLE_CLICK", "CLICK">>
    /\ button.state = "IDLE"

\* C25 - Tolerance of an earlier timestamp (for a button of the default
\* polarity): a call that repeats a stable reading with a timestamp earlier
\* than the last change time, in a pending state, returns NONE and leaves
\* the gesture state as it is.
EarlierTimestampTolerated ==
    [][(/\ button.pressed_state
        /\ SameReading
        /\ button.prev_reading = button.debounced_reading
        /\ tm' < button.last_change_tm
        /\ button.state \in PendingStates)
        => (input' = "NONE" /\ button'.state = button.state)]_vars

RestartsFromIdle ==
    /\ twin_input = input
    /\ twin.state = button.state
    /\ twin.debounced_reading = button.debounced_reading

\* A short click made right after the release of a long press came out
\* as CLICK, for the button and for the fresh one.
RestartsFromIdleWitness ==
    /\ Gestures(events) = <<"LONG_PRESS", "RELEASE", "CLICK">>
    /\ button.pressed_state
    /\ input = "CLICK"
    /\ twin_input = "CLICK"
    /\ button.state = "IDLE"

\* C28 - State/reading coupling: the debounced reading is pressed exactly
\* in PRESSED and the three pressed pending states, and released exactly in
\* IDLE, CLICKED_PENDING and DOUBLE_CLICKED_PENDING; CLICK, and DOUBLE_CLICK
\* delivered by the timeout, are returned while it is released, the three
\* long presses while it is pressed.
StateReadingCoupling ==
    /\ button.debounced_reading
        <=> button.state \in {"PRESSED", "PRESSED_PENDING",
                              "CLICKED_PRESSED_PENDING",
                              "DOUBLE_CLICKED_PRESSED_PENDING"}
    /\ ~button.debounced_reading
        <=> button.state \in {"IDLE", "CLICKED_PENDING", "DOUBLE_CLICKED_PENDING"}
    /\ input = "CLICK" => ~button.debounced_reading
    /\ (input = "DOUBLE_CLICK" /\ button.state = "IDLE")
        => ~button.debounced_reading
    /\ input \in LongPresses => button.debounced_reading

\* A long press returned early, after a reset_duration() call made while
\* the press was pending.
StateReadingCouplingWitness ==
    /\ op = "update"
    /\ input = "LONG_PRESS"
    /\ button.state = "PRESSED"
    /\ button.debounced_reading
    /\ button.last_change_tm = 0
    /\ acc_tm > 0

\* The presses accepted in a recorded history.
PressesAccepted(ev) == Len(SelectSeq(ev, LAMBDA e : e \in {"P", "P_late"}))

\* The number of presses an Input reports.
Weight(g) ==
    CASE g = "CLICK" -> 1
      [] g = "DOUBLE_CLICK" -> 2
      [] g = "LONG_PRESS" -> 1
      [] g = "CLICK_AND_LONG_PRESS" -> 2
      [] g = "DOUBLE_CLICK_AND_LONG_PRESS" -> 3
      [] OTHER -> 0

RECURSIVE PressesReported(_)
PressesReported(g) ==
    IF g = <<>> THEN 0 ELSE Weight(Head(g)) + PressesReported(Tail(g))

\* The number of accepted presses a gesture state has not reported yet.
PressesPending(s) ==
    CASE s = "PRESSED_PENDING" -> 1
      [] s = "CLICKED_PENDING" -> 1
      [] s = "CLICKED_PRESSED_PENDING" -> 2
      [] s = "DOUBLE_CLICKED_PENDING" -> 2
      [] s = "DOUBLE_CLICKED_PRESSED_PENDING" -> 3
      [] OTHER -> 0

\* C29 - Press accounting: the number of presses accepted so far is the
\* sum of the weights of the Inputs returned so far plus the number of
\* presses pending in the gesture state.
PressAccounting ==
    PressesAccepted(events)
        = PressesReported(Gestures(events)) + PressesPending(button.state)

\* Four presses accepted: two reported by a DOUBLE_CLICK, two pending.
PressAccountingWitness ==
    /\ PressesAccepted(events) = 4
    /\ Gestures(events) = <<"DOUBLE_CLICK">>
    /\ button.state = "CLICKED_PRESSED_PENDING"

====
